---- MODULE Spec2Model ----
(***************************************************************************)
(* A model of src/app.py: the QueryAgent (field catalog, response parser,  *)
(* query cleaning and validation), execute_query (the three query shapes   *)
(* and the result report) and the question round trip of main.             *)
(*                                                                         *)
(* Texts are sequences of symbols.  The literals the code searches for     *)
(* ("QUERY:", "THINKING:", the triple-backtick fence, "json") and the      *)
(* pieces of a JSON document (braces, one symbol per object member, one    *)
(* symbol per non-object document) are single symbols; NL and SP are the   *)
(* whitespace characters.                                                  *)
(***************************************************************************)
EXTENDS Integers, Sequences, FiniteSets, TLC

VARIABLES
    pc,            \* position of main / of the function under call
    question,      \* the question of the current script run
    collection,    \* documents of the csv_data collection, in insertion order
    content,       \* response.content as returned by the completion interface
    thinking,      \* formulate_query: the explanation text
    query,         \* formulate_query: the text it returns
    validation,    \* formulate_query: "valid", "failed" or "none"
    formulatedFor, \* the question whose formulate_query call has returned
    executedFor,   \* the question whose execute_query call has been made
    executedText,  \* the text given to execute_query
    results,       \* the report execute_query returned (a sequence of lines)
    calls,         \* collection operations issued by the last execute_query
    raised,        \* the exception that escaped the running function, or "none"
    fault,         \* the exception raised inside execute_query's try block, or "none"
    available_fields, \* QueryAgent.available_fields
    sample_data,      \* the sample record given to QueryAgent
    field_descriptions \* QueryAgent.field_descriptions

vars == <<pc, question, collection, content, thinking, query, validation,
          formulatedFor, executedFor, executedText, results, calls, raised, fault,
          available_fields, sample_data, field_descriptions>>

-----------------------------------------------------------------------------
(* Bounds of the model *)

\* number of documents loaded into the collection is 0..MaxDocs
MaxDocs == 2
\* length of the available_fields list is 0..MaxFields
MaxFields == 2

-----------------------------------------------------------------------------
(* Symbols *)

NL == "NL"
SP == " "
FENCE == "FENCE"
QUERYTOK == "QUERY:"
THINKINGTOK == "THINKING:"
JSONTAG == "json"
WORD == "w"
LBRACE == "{"
RBRACE == "}"
NoThinking == <<"No explicit thinking provided">>

-----------------------------------------------------------------------------
(* Python str methods, on symbol sequences *)

IsSpace(c) == c \in {NL, SP}

RECURSIVE LStrip(_)
LStrip(s) == IF s # <<>> /\ IsSpace(Head(s)) THEN LStrip(Tail(s)) ELSE s

RECURSIVE RStrip(_)
RStrip(s) ==
    IF s # <<>> /\ IsSpace(s[Len(s)]) THEN RStrip(SubSeq(s, 1, Len(s) - 1)) ELSE s

Strip(s) == LStrip(RStrip(s))

StartsWith(s, tok) == s # <<>> /\ Head(s) = tok
EndsWith(s, tok) == s # <<>> /\ s[Len(s)] = tok

\* s.replace(tok, "")
Remove(s, tok) == SelectSeq(s, LAMBDA c : c # tok)

\* s.split(sep): the parts between the occurrences of sep, at least one part
RECURSIVE SplitFrom(_, _, _)
SplitFrom(s, sep, cur) ==
    IF s = <<>> THEN <<cur>>
    ELSE IF Head(s) = sep THEN <<cur>> \o SplitFrom(Tail(s), sep, <<>>)
    ELSE SplitFrom(Tail(s), sep, Append(cur, Head(s)))

Split(s, sep) == SplitFrom(s, sep, <<>>)

\* sep.join(parts)
RECURSIVE Join(_, _)
Join(parts, sep) ==
    IF parts = <<>> THEN <<>>
    ELSE IF Len(parts) = 1 THEN parts[1]
    ELSE parts[1] \o <<sep>> \o Join(Tail(parts), sep)

\* parts[1:-1]
Inner(parts) == IF Len(parts) <= 2 THEN <<>> ELSE SubSeq(parts, 2, Len(parts) - 1)

-----------------------------------------------------------------------------
(* JSON documents *)

\* One symbol per object member: the key and the value it carries.
MemberTokens ==
    {"op:count", "op:sum",
     "pipeline:[match]", "pipeline:[group]", "pipeline:[match,group]", "pipeline:[bad]",
     "filter:{}", "filter:name", "filter:bad",
     "fields:[]", "fields:[name]", "fields:[age,name]", "fields:[_id]", "fields:5"}

\* One symbol per document that is not an object.
DocTokens == {"num:5", "null", "list:[]", "list:[filter]", "str:s", "str:pipeline"}

MemberKey(tok) ==
    CASE tok \in {"op:count", "op:sum"} -> "operation"
      [] tok \in {"pipeline:[match]", "pipeline:[group]", "pipeline:[match,group]",
                  "pipeline:[bad]"} -> "pipeline"
      [] tok \in {"filter:{}", "filter:name", "filter:bad"} -> "filter"
      [] OTHER -> "fields"

JVal(kind, s, items) == [kind |-> kind, s |-> s, items |-> items]

MemberValue(tok) ==
    CASE tok = "op:count" -> JVal("string", "count", <<>>)
      [] tok = "op:sum" -> JVal("string", "sum", <<>>)
      [] tok = "pipeline:[match]" -> JVal("list", "", <<"$match">>)
      [] tok = "pipeline:[group]" -> JVal("list", "", <<"$group">>)
      [] tok = "pipeline:[match,group]" -> JVal("list", "", <<"$match", "$group">>)
      [] tok = "pipeline:[bad]" -> JVal("list", "", <<"$bad">>)
      [] tok = "filter:{}" -> JVal("object", "{}", <<>>)
      [] tok = "filter:name" -> JVal("object", "name~a", <<>>)
      [] tok = "filter:bad" -> JVal("object", "$bad", <<>>)
      [] tok = "fields:[]" -> JVal("list", "", <<>>)
      [] tok = "fields:[name]" -> JVal("list", "", <<"name">>)
      [] tok = "fields:[age,name]" -> JVal("list", "", <<"age", "name">>)
      [] tok = "fields:[_id]" -> JVal("list", "", <<"_id">>)
      [] OTHER -> JVal("number", "5", <<>>)

NoMembers == [k \in {} |-> JVal("null", "", <<>>)]

\* A parsed document: its kind, the members of an object, and for a list or a
\* string the texts that the operator "in" finds in it.
JDoc(kind, members, elems) == [kind |-> kind, members |-> members, elems |-> elems]

DocValue(tok) ==
    CASE tok = "num:5" -> JDoc("number", NoMembers, {})
      [] tok = "null" -> JDoc("null", NoMembers, {})
      [] tok = "list:[]" -> JDoc("list", NoMembers, {})
      [] tok = "list:[filter]" -> JDoc("list", NoMembers, {"filter"})
      [] tok = "str:s" -> JDoc("string", NoMembers, {})
      [] OTHER -> JDoc("string", NoMembers, {"pipeline"})

\* dict semantics of json.loads: the last member with a key wins
LastWith(ms, key) ==
    LET idx == {i \in 1..Len(ms) : MemberKey(ms[i]) = key}
        last == CHOOSE i \in idx : \A j \in idx : j <= i
    IN MemberValue(ms[last])

MembersOf(ms) ==
    [k \in {MemberKey(ms[i]) : i \in 1..Len(ms)} |-> LastWith(ms, k)]

\* json.loads(text); kind "JSONDecodeError" stands for the raised exception
JsonLoads(text) ==
    LET t == Strip(text) IN
    IF Len(t) = 1 /\ t[1] \in DocTokens THEN DocValue(t[1])
    ELSE IF Len(t) >= 2 /\ t[1] = LBRACE /\ t[Len(t)] = RBRACE
    THEN LET body == SubSeq(t, 2, Len(t) - 1)
             ms == SelectSeq(body, LAMBDA c : ~IsSpace(c))
         IN IF \A i \in 1..Len(ms) : ms[i] \in MemberTokens
            THEN JDoc("object", MembersOf(ms), {})
            ELSE JDoc("JSONDecodeError", NoMembers, {})
    ELSE JDoc("JSONDecodeError", NoMembers, {})

\* key in obj: a dict tests its keys, a list its elements, a str its substrings;
\* a number or null raises TypeError
InRaises(obj) == obj.kind \in {"number", "null"}
Contains(obj, key) ==
    IF obj.kind = "object" THEN key \in DOMAIN obj.members ELSE key \in obj.elems

-----------------------------------------------------------------------------
(* The document collection (pymongo), as the code uses it *)

Val(t, v) == [t |-> t, v |-> v]
NullVal == Val("null", 0)
Pair(k, v) == [k |-> k, v |-> v]

\* The i-th record of the dataset as insert_many stores it: an ObjectId under
\* _id, then the CSV columns in order.
Doc(i) == <<Pair("_id", Val("ObjectId", i)),
            Pair("name", Val("str", i % 2)),
            Pair("age", Val("int", i))>>

Loaded(n) == [i \in 1..n |-> Doc(i)]

Get(doc, key) ==
    LET idx == {i \in 1..Len(doc) : doc[i].k = key}
    IN IF idx = {} THEN NullVal ELSE doc[CHOOSE i \in idx : TRUE].v

EmptyFilter == JVal("object", "{}", <<>>)

\* {} matches every document; {"name": {"$regex": "a", "$options": "i"}} the
\* documents whose name holds an "a" (the names numbered 0)
FilterMatches(filter, doc) ==
    \/ filter.s = "{}"
    \/ filter.s = "name~a" /\ Get(doc, "name") = Val("str", 0)

CollResult(exc, docs, n) == [exc |-> exc, docs |-> docs, n |-> n]

\* what a collection call raises, if anything
FilterFault(filter, net) ==
    IF net = "down" THEN "ConnectionFailure"
    ELSE IF filter.s = "$bad" THEN "OperationFailure"
    ELSE "none"

Matching(coll, filter) == SelectSeq(coll, LAMBDA d : FilterMatches(filter, d))

CountDocuments(coll, filter, net) ==
    IF FilterFault(filter, net) # "none"
    THEN CollResult(FilterFault(filter, net), <<>>, 0)
    ELSE CollResult("none", <<>>, Len(Matching(coll, filter)))

InSeq(x, s) == \E i \in 1..Len(s) : s[i] = x

\* an inclusion projection returns the listed fields and _id
Project(doc, fields) == SelectSeq(doc, LAMBDA p : p.k = "_id" \/ InSeq(p.k, fields))

NoProjection == [present |-> FALSE, fields |-> <<>>]
Projection(fields) == [present |-> TRUE, fields |-> fields]

Find(coll, filter, projection, net) ==
    IF FilterFault(filter, net) # "none"
    THEN CollResult(FilterFault(filter, net), <<>>, 0)
    ELSE LET ms == Matching(coll, filter)
         IN CollResult("none",
                       IF projection.present
                       THEN [i \in 1..Len(ms) |-> Project(ms[i], projection.fields)]
                       ELSE ms,
                       Len(ms))

RECURSIVE SumAge(_)
SumAge(docs) ==
    IF docs = <<>> THEN 0 ELSE Get(Head(docs), "age").v + SumAge(Tail(docs))

\* {"$group": {"_id": null, "average": {"$avg": "$age"}}}
Group(docs) ==
    IF docs = <<>> THEN <<>>
    ELSE << <<Pair("_id", NullVal),
              Pair("average", Val("int", SumAge(docs) \div Len(docs)))>> >>

RECURSIVE RunStages(_, _)
RunStages(docs, pipeline) ==
    IF pipeline = <<>> THEN CollResult("none", docs, Len(docs))
    ELSE IF Head(pipeline) = "$match" THEN RunStages(docs, Tail(pipeline))
    ELSE IF Head(pipeline) = "$group" THEN RunStages(Group(docs), Tail(pipeline))
    ELSE CollResult("OperationFailure", <<>>, 0)

Aggregate(coll, pipeline, net) ==
    IF net = "down" THEN CollResult("ConnectionFailure", <<>>, 0)
    ELSE RunStages(coll, pipeline)

-----------------------------------------------------------------------------
(* execute_query *)

\* A report is a sequence of lines; a line is its fixed text t, and the field
\* name k, value v and number n printed in it.
Line(t, k, v, n) == [t |-> t, k |-> k, v |-> v, n |-> n]
ErrorLine(exc) == Line("Error processing query:", exc, NullVal, 0)
CountLine(n) == Line("Found <n> records", "", NullVal, n)
NoMatchLine == Line("No matching records found", "", NullVal, 0)
FoundLine(n) == Line("Found <n> matches:", "", NullVal, n)
BlankLine == Line("", "", NullVal, 0)
RecordLine == Line("Record:", "", NullVal, 0)
KVLine(k, v) == Line("  <k>: <v>", k, v, 0)

Call(op, filter, projection, pipeline) ==
    [op |-> op, filter |-> filter, projection |-> projection, pipeline |-> pipeline]

\* what the body of the try block comes to: the exception it raised ("none" if
\* it returned), the report it returned, the collection calls it made
Outcome(exc, report, issued) == [exc |-> exc, report |-> report, calls |-> issued]

None == JVal("null", "", <<>>)

\* query_obj.get(key, default)
GetOr(obj, key, default) ==
    IF key \in DOMAIN obj.members THEN obj.members[key] ELSE default

\* Python truth value of a parsed JSON value
Truthy(v) ==
    CASE v.kind = "list" -> v.items # <<>>
      [] v.kind = "string" -> v.s # ""
      [] v.kind = "number" -> v.s # "0"
      [] v.kind = "object" -> v.s # "{}"
      [] OTHER -> FALSE

Iterable(v) == v.kind \in {"list", "string", "object"}

\* json.dumps raises TypeError on a value that is not a JSON type
Serializable(docs) ==
    \A i \in 1..Len(docs) : \A j \in 1..Len(docs[i]) : docs[i][j].v.t # "ObjectId"

RECURSIVE Flatten(_)
Flatten(blocks) ==
    IF blocks = <<>> THEN <<>> ELSE Head(blocks) \o Flatten(Tail(blocks))

KVLines(doc) == [j \in 1..Len(doc) |-> KVLine(doc[j].k, doc[j].v)]

\* json.dumps(result, indent=2)
JsonDumps(docs) ==
    IF docs = <<>> THEN <<Line("[]", "", NullVal, 0)>>
    ELSE <<Line("[", "", NullVal, 0)>>
         \o Flatten([i \in 1..Len(docs) |->
                       <<Line("  {", "", NullVal, 0)>> \o KVLines(docs[i])
                       \o <<Line("  }", "", NullVal, 0)>>])
         \o <<Line("]", "", NullVal, 0)>>

\* lines 136-139
CountShape(coll, obj, net) ==
    LET filter_query == GetOr(obj, "filter", EmptyFilter)
        issued == <<Call("count_documents", filter_query.s, NoProjection, <<>>)>>
        res == CountDocuments(coll, filter_query, net)
    IN IF res.exc # "none" THEN Outcome(res.exc, <<>>, issued)
       ELSE Outcome("none", <<CountLine(res.n)>>, issued)

\* lines 142-144
AggregateShape(coll, obj, net) ==
    LET pipeline == obj.members["pipeline"].items
        issued == <<Call("aggregate", "", NoProjection, pipeline)>>
        res == Aggregate(coll, pipeline, net)
    IN IF res.exc # "none" THEN Outcome(res.exc, <<>>, issued)
       ELSE IF ~Serializable(res.docs) THEN Outcome("TypeError", <<>>, issued)
       ELSE Outcome("none", JsonDumps(res.docs), issued)

\* doc.pop('_id', None)
PopId(doc) == SelectSeq(doc, LAMBDA p : p.k # "_id")

\* f"Record:\n{formatted_details}", as lines
RecordBlock(doc) ==
    <<RecordLine>> \o (IF doc = <<>> THEN <<BlankLine>> ELSE KVLines(doc))

\* "\n\n".join(result), as lines
RECURSIVE JoinBlocks(_)
JoinBlocks(blocks) ==
    IF blocks = <<>> THEN <<>>
    ELSE IF Len(blocks) = 1 THEN blocks[1]
    ELSE blocks[1] \o <<BlankLine>> \o JoinBlocks(Tail(blocks))

\* the report without the test for an empty result
FormatMatchesNoEmptyTest(matches) ==
    <<FoundLine(Len(matches)), BlankLine>>
    \o JoinBlocks([i \in 1..Len(matches) |-> RecordBlock(PopId(matches[i]))])

\* lines 167-177
FormatMatches(matches) ==
    IF matches = <<>> THEN <<NoMatchLine>>
    ELSE <<FoundLine(Len(matches)), BlankLine>>
         \o JoinBlocks([i \in 1..Len(matches) |-> RecordBlock(PopId(matches[i]))])

\* line 151: {field: 1 for field in fields} if fields else None
UseProjection(fields) == Truthy(fields)

\* lines 148-177
FindShape(coll, obj, net) ==
    LET filter_query == GetOr(obj, "filter", EmptyFilter)
        fields == GetOr(obj, "fields", None)
    IN IF UseProjection(fields) /\ ~Iterable(fields)
       THEN Outcome("TypeError", <<>>, <<>>)
       ELSE LET projection == IF UseProjection(fields)
                              THEN Projection(fields.items) ELSE NoProjection
                issued == <<Call("find", filter_query.s, projection, <<>>)>>
                res == Find(coll, filter_query, projection, net)
            IN IF res.exc # "none" THEN Outcome(res.exc, <<>>, issued)
               ELSE Outcome("none", FormatMatches(res.docs), issued)

\* a count test that does not look at the value of "operation"
IsCountAnyOperation(obj) == Contains(obj, "operation")

\* line 135
IsCount(obj) ==
    /\ Contains(obj, "operation")
    /\ obj.members["operation"] = JVal("string", "count", <<>>)

\* lines 131-177: the body of the try block
TryBody(coll, text, net) ==
    LET query_obj == JsonLoads(text) IN
    IF query_obj.kind = "JSONDecodeError" THEN Outcome("JSONDecodeError", <<>>, <<>>)
    ELSE IF InRaises(query_obj) THEN Outcome("TypeError", <<>>, <<>>)
    ELSE IF query_obj.kind # "object"
    THEN \* a list or a str: subscripting it with a key raises TypeError, and it
         \* has no method get
         IF Contains(query_obj, "operation") \/ Contains(query_obj, "pipeline")
         THEN Outcome("TypeError", <<>>, <<>>)
         ELSE Outcome("AttributeError", <<>>, <<>>)
    ELSE IF IsCount(query_obj) THEN CountShape(coll, query_obj, net)
    ELSE IF Contains(query_obj, "pipeline") THEN AggregateShape(coll, query_obj, net)
    ELSE FindShape(coll, query_obj, net)

\* a handler for the parse error alone
CaughtDecodeErrorOnly(exc) == exc = "JSONDecodeError"

\* line 179: except Exception
Caught(exc) == TRUE

\* execute_query: the report returned, the exception that escaped, the calls made
ExecuteQuery(coll, text, net) ==
    LET body == TryBody(coll, text, net) IN
    IF body.exc = "none"
    THEN [report |-> body.report, raised |-> "none", calls |-> body.calls,
          fault |-> "none"]
    ELSE IF Caught(body.exc)
    THEN [report |-> <<ErrorLine(body.exc)>>, raised |-> "none", calls |-> body.calls,
          fault |-> body.exc]
    ELSE [report |-> <<>>, raised |-> body.exc, calls |-> body.calls,
          fault |-> body.exc]

-----------------------------------------------------------------------------
(* QueryAgent *)

Keys(d) == {d[i].k : i \in 1..Len(d)}

\* lines 14-17: the dict comprehension raises KeyError at a field that
\* sample_data lacks
InitRaises(fields, sample) == \E i \in 1..Len(fields) : fields[i] \notin Keys(sample)

Describe(fields, sample) ==
    [f \in {fields[i] : i \in 1..Len(fields)} |-> Get(sample, f)]

NoDescriptions == [f \in {} |-> NullVal]

\* QueryAgent.__init__
QueryAgentInit(fields, sample) ==
    IF InitRaises(fields, sample)
    THEN [raised |-> "KeyError", field_descriptions |-> NoDescriptions]
    ELSE [raised |-> "none", field_descriptions |-> Describe(fields, sample)]

\* the keys of a dict built from a list, in the order of first insertion
RECURSIVE Distinct(_)
Distinct(fields) ==
    IF fields = <<>> THEN <<>>
    ELSE LET front == Distinct(SubSeq(fields, 1, Len(fields) - 1))
             last == fields[Len(fields)]
         IN IF InSeq(last, front) THEN front ELSE Append(front, last)

\* _format_field_descriptions: one line "- <field>: Example value: <value>"
\* per entry of field_descriptions
FormatFieldDescriptions(fields, descriptions) ==
    LET ks == SelectSeq(Distinct(fields), LAMBDA f : f \in DOMAIN descriptions)
    IN [i \in 1..Len(ks) |-> Pair(ks[i], descriptions[ks[i]])]

\* lines 86-92
ParseResponse(text) ==
    LET parts == Split(text, QUERYTOK) IN
    IF Len(parts) = 2
    THEN [thinking |-> Strip(Remove(parts[1], THINKINGTOK)), query |-> Strip(parts[2])]
    ELSE [thinking |-> NoThinking, query |-> text]

\* lines 100-103
StripFence(q) ==
    IF StartsWith(q, FENCE) /\ EndsWith(q, FENCE) THEN Join(Inner(Split(q, NL)), NL) ELSE q

StripTag(q) == IF StartsWith(q, JSONTAG) THEN Strip(Tail(q)) ELSE q

CleanQuery(q) == StripTag(StripFence(q))

LoggedKeys == {"filter", "fields", "pipeline", "operation"}

\* the validation without its except clause: the parse error escapes
ValidateQueryUncaught(q) ==
    IF JsonLoads(q).kind = "JSONDecodeError"
    THEN [validation |-> "failed", raised |-> "JSONDecodeError"]
    ELSE [validation |-> "valid", raised |-> "none"]

\* lines 107-123: "valid", "failed" (JSONDecodeError, caught), or the exception
\* that the logging of a document that is no object raises
ValidateQuery(q) ==
    LET json_query == JsonLoads(q) IN
    IF json_query.kind = "JSONDecodeError" THEN [validation |-> "failed", raised |-> "none"]
    ELSE IF InRaises(json_query) THEN [validation |-> "valid", raised |-> "TypeError"]
    ELSE IF json_query.kind # "object" /\ \E k \in LoggedKeys : Contains(json_query, k)
    THEN [validation |-> "valid", raised |-> "TypeError"]
    ELSE [validation |-> "valid", raised |-> "none"]

\* line 125
Returned(cleaned) == cleaned

\* formulate_query, from the response text on
FormulateQuery(response) ==
    LET text == Strip(response)
        parsed == ParseResponse(text)
        cleaned == CleanQuery(parsed.query)
        checked == ValidateQuery(cleaned)
    IN [content |-> text, thinking |-> parsed.thinking, query |-> Returned(cleaned),
        validation |-> checked.validation, raised |-> checked.raised]

-----------------------------------------------------------------------------
(* Inputs *)

Questions == {"q1", "q2"}
Nets == {"up", "down"}
Collections == {Loaded(n) : n \in 0..MaxDocs}

OpChoices == {<<>>, <<"op:count">>, <<"op:sum">>}
PipelineChoices == {<<>>, <<"pipeline:[match]">>, <<"pipeline:[group]">>,
                    <<"pipeline:[match,group]">>, <<"pipeline:[bad]">>}
FilterChoices == {<<>>, <<"filter:{}">>, <<"filter:name">>, <<"filter:bad">>}
FieldsChoices == {<<>>, <<"fields:[]">>, <<"fields:[name]">>, <<"fields:[age,name]">>,
                  <<"fields:[_id]">>, <<"fields:5">>}

\* every object over the four keys the code reads
ObjectTexts ==
    {<<LBRACE>> \o f \o fl \o p \o o \o <<RBRACE>> :
        f \in FilterChoices, fl \in FieldsChoices, p \in PipelineChoices, o \in OpChoices}

OtherTexts ==
    {<<d>> : d \in DocTokens}
    \cup {<<>>, <<WORD>>, <<LBRACE>>, <<WORD, LBRACE, RBRACE>>,
          <<LBRACE, "op:sum", "op:count", RBRACE>>,
          <<LBRACE, "op:count", "op:sum", RBRACE>>}

\* the texts execute_query is called with
QueryTexts == ObjectTexts \cup OtherTexts

\* the query texts a response of the completion interface carries
CoreTexts ==
    {<<LBRACE>> \o m \o <<RBRACE>> :
        m \in OpChoices \cup PipelineChoices \cup FilterChoices \cup FieldsChoices}
    \cup {<<LBRACE, NL, "filter:name", NL, "fields:[name]", NL, RBRACE>>}
    \cup OtherTexts

Prefixes ==
    {<<>>,
     <<SP, NL>>,
     <<THINKINGTOK, SP, WORD, NL, QUERYTOK, SP>>,
     <<WORD, NL, QUERYTOK>>,
     <<THINKINGTOK, WORD, QUERYTOK, WORD, NL, QUERYTOK, SP>>}

Suffixes == {<<>>, <<NL>>}

Wrappers == {"none", "fence lines", "fence json lines", "fence inline",
             "fence json inline", "json tag"}

\* the fenced blocks: the fence markers on lines of their own or on the line
\* of the text, with or without the language tag
FenceWrappers == {"fence lines", "fence json lines", "fence inline", "fence json inline"}

Wrap(w, q) ==
    CASE w = "fence lines" -> <<FENCE, NL>> \o q \o <<NL, FENCE>>
      [] w = "fence json lines" -> <<FENCE, JSONTAG, NL>> \o q \o <<NL, FENCE>>
      [] w = "fence inline" -> <<FENCE>> \o q \o <<FENCE>>
      [] w = "fence json inline" -> <<FENCE, JSONTAG, SP>> \o q \o <<FENCE>>
      [] w = "json tag" -> <<JSONTAG, NL>> \o q
      [] OTHER -> q

Responses ==
    {p \o Wrap(w, q) \o x : p \in Prefixes, w \in Wrappers, q \in CoreTexts, x \in Suffixes}

\* what llm.invoke comes to: a response text, or an exception
LLMOutcomes ==
    {[exc |-> "none", text |-> r] : r \in Responses}
    \cup {[exc |-> "APIError", text |-> <<>>]}

FieldNames == {"name", "age", "city"}

FieldLists == UNION {[1..n -> FieldNames] : n \in 0..MaxFields}

\* sample records: the listed columns, in order, with their values
SampleRecords ==
    {SelectSeq(<<Pair("name", Val("str", 1)), Pair("age", Val("int", 1)),
                 Pair("city", Val("str", 2))>>, LAMBDA p : p.k \in ks) :
        ks \in SUBSET FieldNames}

-----------------------------------------------------------------------------
(* The question round trip of main, lines 230-253 *)

Columns == <<"name", "age">>
FirstRow == <<Pair("name", Val("str", 1)), Pair("age", Val("int", 1))>>

Fresh ==
    /\ content = <<>>
    /\ thinking = <<>>
    /\ query = <<>>
    /\ validation = "none"
    /\ formulatedFor = "none"
    /\ executedFor = "none"
    /\ executedText = <<>>
    /\ results = <<>>
    /\ calls = <<>>
    /\ raised = "none"
    /\ fault = "none"

Init ==
    /\ pc = "Idle"
    /\ question = "none"
    /\ collection \in Collections
    /\ available_fields = Columns
    /\ sample_data = FirstRow
    /\ field_descriptions = QueryAgentInit(Columns, FirstRow).field_descriptions
    /\ Fresh

\* a question taken while a round trip is running
CanAcceptAnytime == TRUE

\* line 230-232: the script takes a question only when no round trip is running
CanAccept == pc = "Idle"

\* line 251: the text main gives to execute_query
ExecArg(returned) == returned

\* a question is received: a new run of the script starts at line 232
Ask(q) ==
    /\ CanAccept
    /\ pc' = "Formulating"
    /\ question' = q
    /\ content' = <<>>
    /\ thinking' = <<>>
    /\ query' = <<>>
    /\ validation' = "none"
    /\ formulatedFor' = "none"
    /\ executedFor' = "none"
    /\ executedText' = <<>>
    /\ results' = <<>>
    /\ calls' = <<>>
    /\ raised' = "none"
    /\ fault' = "none"
    /\ UNCHANGED <<collection, available_fields, sample_data, field_descriptions>>

\* line 242: agent.formulate_query(question); an exception ends the run
FormulateQueryCall(llm) ==
    /\ pc = "Formulating"
    /\ LET out == FormulateQuery(llm.text) IN
       IF llm.exc # "none"
       THEN /\ pc' = "Idle"
            /\ raised' = llm.exc
            /\ UNCHANGED <<content, thinking, query, validation, formulatedFor>>
       ELSE IF out.raised # "none"
       THEN /\ pc' = "Idle"
            /\ raised' = out.raised
            /\ content' = out.content
            /\ thinking' = out.thinking
            /\ validation' = out.validation
            /\ UNCHANGED <<query, formulatedFor>>
       ELSE /\ pc' = "Executing"
            /\ raised' = "none"
            /\ content' = out.content
            /\ thinking' = out.thinking
            /\ validation' = out.validation
            /\ query' = out.query
            /\ formulatedFor' = question
    /\ UNCHANGED <<question, collection, executedFor, executedText, results, calls,
                   fault, available_fields, sample_data, field_descriptions>>

\* line 251: execute_query(collection, query)
ExecuteQueryCall(net) ==
    /\ pc = "Executing"
    /\ LET out == ExecuteQuery(collection, ExecArg(query), net) IN
       /\ executedText' = ExecArg(query)
       /\ executedFor' = question
       /\ results' = out.report
       /\ calls' = out.calls
       /\ raised' = out.raised
       /\ fault' = out.fault
    /\ pc' = "Idle"
    /\ UNCHANGED <<question, collection, content, thinking, query, validation,
                   formulatedFor, available_fields, sample_data, field_descriptions>>

Next ==
    \/ \E q \in Questions : Ask(q)
    \/ \E llm \in LLMOutcomes : FormulateQueryCall(llm)
    \/ \E net \in Nets : ExecuteQueryCall(net)

Spec == Init /\ [][Next]_vars

-----------------------------------------------------------------------------
(* execute_query called on each query text *)

InitExec ==
    /\ pc = "Executing"
    /\ question = "q1"
    /\ collection \in Collections
    /\ available_fields = Columns
    /\ sample_data = FirstRow
    /\ field_descriptions = QueryAgentInit(Columns, FirstRow).field_descriptions
    /\ content = <<>>
    /\ thinking = <<>>
    /\ query \in QueryTexts
    /\ validation = "none"
    /\ formulatedFor = "none"
    /\ executedFor = "none"
    /\ executedText = <<>>
    /\ results = <<>>
    /\ calls = <<>>
    /\ raised = "none"
    /\ fault = "none"

NextExec == \E net \in Nets : ExecuteQueryCall(net)

SpecExec == InitExec /\ [][NextExec]_vars

-----------------------------------------------------------------------------
(* QueryAgent constructed on each field list and sample record *)

InitCatalog ==
    /\ pc = "Constructing"
    /\ question = "none"
    /\ collection = <<>>
    /\ available_fields \in FieldLists
    /\ sample_data \in SampleRecords
    /\ field_descriptions = NoDescriptions
    /\ Fresh

\* QueryAgent(available_fields, sample_data)
Construct ==
    /\ pc = "Constructing"
    /\ LET out == QueryAgentInit(available_fields, sample_data) IN
       /\ field_descriptions' = out.field_descriptions
       /\ raised' = out.raised
    /\ pc' = "Constructed"
    /\ UNCHANGED <<question, collection, content, thinking, query, validation,
                   formulatedFor, executedFor, executedText, results, calls, fault,
                   available_fields, sample_data>>

NextCatalog == Construct

SpecCatalog == InitCatalog /\ [][NextCatalog]_vars

-----------------------------------------------------------------------------
(* Claims about execute_query, under SpecExec *)

\* execute_query has been called and has ended
Executed == pc = "Idle" /\ executedFor # "none"

ExecutedObj == JsonLoads(executedText)
IsObject == ExecutedObj.kind = "object"
CountCase == IsObject /\ ExecutedObj.members["operation"] = JVal("string", "count", <<>>)
HasKey(key) == IsObject /\ key \in DOMAIN ExecutedObj.members
OperationIsCount == HasKey("operation") /\ CountCase
AggregateCase == IsObject /\ ~OperationIsCount /\ HasKey("pipeline")
FindCase == IsObject /\ ~OperationIsCount /\ ~HasKey("pipeline")
FilterGiven == GetOr(ExecutedObj, "filter", EmptyFilter)
FieldsGiven == GetOr(ExecutedObj, "fields", None)

\* the collection call made failed (it raised), or none was made
CallFailed == fault \in {"ConnectionFailure", "OperationFailure"}

\* the shape chosen in the priority order count, aggregate, find; a report is
\* the shape's report when its collection call returns
PriorityOrder ==
    /\ OperationIsCount =>
          /\ calls # <<>> => calls[1].op = "count_documents" /\ calls[1].filter = FilterGiven.s
          /\ calls # <<>> /\ ~CallFailed =>
                Len(results) = 1 /\ results[1].t = "Found <n> records"
    /\ AggregateCase => (calls # <<>> => calls[1].op = "aggregate")
    /\ FindCase => (calls # <<>> => calls[1].op = "find")

\* C1 as stated: for every text that parses to an object, the shape is chosen
\* in the order count, aggregate, find, and exactly one of count_documents,
\* aggregate, find is issued by the call.
C1_ExactlyOneCallInPriorityOrder ==
    Executed /\ IsObject => PriorityOrder /\ Len(calls) = 1

\* the projection cannot be built: fields is true and not iterable
ProjectionFails == FindCase /\ Truthy(FieldsGiven) /\ ~Iterable(FieldsGiven)

\* C1 amended: the shape is chosen in the order count, aggregate, find, and at
\* most one collection call is issued: exactly one, unless the find shape fails
\* to build its projection from a fields value that is true and not iterable,
\* and then none is issued and the report is the error report.
C1_AtMostOneCallInPriorityOrder ==
    Executed /\ IsObject =>
        /\ PriorityOrder
        /\ IF ProjectionFails
           THEN calls = <<>> /\ results = <<ErrorLine("TypeError")>>
           ELSE Len(calls) = 1

\* a count query that also carries a pipeline and fields has been counted
C1_Witness ==
    /\ Executed
    /\ OperationIsCount /\ HasKey("pipeline") /\ HasKey("fields")
    /\ Len(calls) = 1 /\ calls[1].op = "count_documents"
    /\ results = <<CountLine(Len(collection))>>
    /\ Len(collection) = MaxDocs

\* C2: execute_query never raises: on every text that is no JSON object, and
\* on every failure inside it, it returns the error report alone.
C2_NeverRaises ==
    Executed =>
        /\ raised = "none"
        /\ results # <<>>
        /\ ~IsObject => fault # "none"
        /\ fault # "none" => results = <<ErrorLine(fault)>>

\* the aggregation returned documents that json.dumps rejects, and the report
\* is the error report
C2_Witness ==
    /\ Executed
    /\ AggregateCase /\ Len(calls) = 1 /\ fault = "TypeError"
    /\ results = <<ErrorLine("TypeError")>>

\* the field names printed in a report
Printed == {results[i].k : i \in {j \in 1..Len(results) : results[j].t = "  <k>: <v>"}}

\* C7 as stated: in the find shape a fields list, the empty list included,
\* makes the find carry the projection of exactly the listed fields, every
\* rendered record holds listed fields only, and no find report shows _id.
C7_ProjectionOfListedFields ==
    Executed /\ FindCase =>
        /\ "_id" \notin Printed
        /\ HasKey("fields") /\ FieldsGiven.kind = "list" =>
              /\ Len(calls) = 1
              /\ calls[1].projection = Projection(FieldsGiven.items)
              /\ \A k \in Printed : InSeq(k, FieldsGiven.items)

\* C8 as stated: the aggregate shape passes the pipeline as given and returns
\* the result list of the aggregation as indented JSON, whatever documents the
\* list holds.
C8_AggregateResultSerialized ==
    Executed /\ AggregateCase =>
        /\ calls = <<Call("aggregate", "", NoProjection, ExecutedObj.members["pipeline"].items)>>
        /\ ~CallFailed =>
              results = JsonDumps(Aggregate(collection, calls[1].pipeline, "up").docs)

\* the records the find of the call returned
Returned_matches == Find(collection, FilterGiven, calls[1].projection, "up").docs

RecordIdx == {i \in 1..Len(results) : results[i] = RecordLine}
NthRecord(i) == CHOOSE r \in RecordIdx : Cardinality({x \in RecordIdx : x < r}) = i - 1

\* the i-th block renders the i-th record without _id, after a blank line
BlockRenders(i, doc) ==
    LET r == NthRecord(i)
        d == SelectSeq(doc, LAMBDA p : p.k # "_id")
    IN /\ results[r - 1] = BlankLine
       /\ Len(results) >= r + Len(d)
       /\ \A j \in 1..Len(d) : results[r + j] = KVLine(d[j].k, d[j].v)
       /\ Len(results) > r + Len(d) => results[r + Len(d) + 1] = BlankLine

\* C10: when the find returns, the report is "No matching records found"
\* exactly if it returned no record; otherwise it is "Found <N> matches:" and
\* N Record blocks, one per returned record in order, set apart by blank lines.
C10_HeaderMatchesBody ==
    Executed /\ FindCase /\ Len(calls) = 1 /\ ~CallFailed =>
        LET matches == Returned_matches IN
        /\ results = <<NoMatchLine>> <=> matches = <<>>
        /\ matches # <<>> =>
              /\ results[1] = FoundLine(Len(matches))
              /\ Cardinality(RecordIdx) = Len(matches)
              /\ \A i \in 1..Len(matches) : BlockRenders(i, matches[i])

\* a find that returned every record of a full collection has been reported
C10_Witness ==
    /\ Executed /\ FindCase /\ Len(calls) = 1 /\ ~CallFailed
    /\ Len(Returned_matches) = MaxDocs
    /\ results[1] = FoundLine(MaxDocs)
    /\ Cardinality(RecordIdx) = MaxDocs

-----------------------------------------------------------------------------
(* Claims about the round trip and formulate_query, under Spec *)

C3_State ==
    /\ pc \in {"Idle", "Formulating", "Executing"}
    /\ pc = "Formulating" => formulatedFor = "none" /\ executedFor = "none"
    /\ pc = "Executing" => formulatedFor = question /\ executedFor = "none"
    /\ executedFor # "none" =>
          /\ pc = "Idle"
          /\ executedFor = question /\ formulatedFor = question
          /\ executedText = query
    \* a round trip under way is never stuck: its next call can be made
    /\ pc = "Formulating" => ENABLED (\E llm \in LLMOutcomes : FormulateQueryCall(llm))
    /\ pc = "Executing" => ENABLED (\E net \in Nets : ExecuteQueryCall(net))

C3_Step ==
    /\ pc' = "Formulating" /\ (pc # "Formulating" \/ question' # question) => pc = "Idle"
    /\ question' # question => pc = "Idle" /\ pc' = "Formulating"
    /\ pc = "Formulating" => pc' \in {"Formulating", "Executing", "Idle"}
    /\ pc = "Formulating" /\ pc' = "Idle" => raised' # "none" /\ executedFor' = "none"
    /\ pc' = "Executing" /\ pc # "Executing" => pc = "Formulating"
    /\ pc = "Executing" => pc' \in {"Executing", "Idle"}
    /\ pc = "Executing" /\ pc' = "Idle" => executedFor' = question /\ results' # <<>>

\* C3: a question runs Idle, Formulating, Executing, Idle: execute_query
\* starts only after formulate_query returned for the same question, with the
\* text it returned; a question is accepted only in Idle, and the round trip
\* of an accepted question ends in Idle with a report or with the error that
\* ended it.
C3_LinearRoundTrip == []C3_State /\ [][C3_Step]_vars

\* the second question has been answered from the text formulated for it
C3_Witness ==
    /\ pc = "Idle" /\ question = "q2"
    /\ formulatedFor = "q2" /\ executedFor = "q2"
    /\ query # <<>> /\ executedText = query
    /\ results # <<>> /\ results[1].t = "Found <n> records"

\* the cleaned text of the response held in content
Cleaned == CleanQuery(ParseResponse(content).query)
Undecodable(text) == JsonLoads(text).kind = "JSONDecodeError"

\* C4: a cleaned text that is not valid JSON is reported as a validation
\* failure and nothing more: formulate_query returns the cleaned text as it
\* is, execute_query is called with it and returns the error report of the
\* parse; and a text the validation accepts does not fail the parse of
\* execute_query.
C4_ValidationAgreesWithExecutor ==
    /\ validation # "none" => (validation = "failed" <=> Undecodable(Cleaned))
    /\ validation = "failed" =>
          /\ raised = "none"
          /\ formulatedFor = question
          /\ query = Cleaned
          /\ pc = "Idle" =>
                /\ executedFor = question /\ executedText = Cleaned
                /\ results = <<ErrorLine("JSONDecodeError")>>
    /\ validation = "valid" /\ executedFor # "none" => fault # "JSONDecodeError"

\* a text that failed the validation has been executed and reported
C4_Witness ==
    /\ pc = "Idle" /\ validation = "failed"
    /\ executedFor = question /\ executedText = query
    /\ query # <<>>
    /\ results = <<ErrorLine("JSONDecodeError")>>

FirstQuery(text) ==
    LET idx == {i \in 1..Len(text) : text[i] = QUERYTOK}
    IN IF idx = {} THEN 0 ELSE CHOOSE i \in idx : \A j \in idx : i <= j

\* C5 as stated: the response is split at the first "QUERY:", however often
\* "QUERY:" occurs: the explanation is the text before it without the
\* "THINKING:" label, the query text is what follows it; only a response
\* without "QUERY:" gives the placeholder and the whole text.
C5_SplitAtFirstQuery ==
    validation # "none" =>
        LET at == FirstQuery(content) IN
        IF at = 0
        THEN /\ thinking = NoThinking
             /\ formulatedFor # "none" => query = CleanQuery(content)
        ELSE /\ thinking = Strip(Remove(SubSeq(content, 1, at - 1), THINKINGTOK))
             /\ formulatedFor # "none" =>
                   query = CleanQuery(Strip(SubSeq(content, at + 1, Len(content))))

\* a valid cleaned query text: it parses to an object and cleaning leaves it as it is
ValidCleaned(q) == JsonLoads(q).kind = "object" /\ CleanQuery(q) = q /\ Strip(q) = q

\* C9 as stated: a valid cleaned query wrapped in a fenced block, with or
\* without the "json" tag, the fence markers on lines of their own or on the
\* line of the text, cleans to a text that parses to the same JSON object.
C9_CleaningStableUnderFence ==
    \A q \in CoreTexts : \A w \in FenceWrappers :
        ValidCleaned(q) /\ validation # "none" /\ content = Wrap(w, q) =>
            /\ validation = "valid"
            /\ formulatedFor # "none" => JsonLoads(query) = JsonLoads(q)

-----------------------------------------------------------------------------
(* Claim about the field catalog, under SpecCatalog *)

Listed == {available_fields[i] : i \in 1..Len(available_fields)}

\* C6 as stated: the construction never fails; the catalog describes each
\* listed field that the sample record holds and leaves out the others.
C6_CatalogOmitsMissingFields ==
    pc = "Constructed" =>
        /\ raised = "none"
        /\ DOMAIN field_descriptions = Listed \cap Keys(sample_data)
        /\ \A f \in DOMAIN field_descriptions :
              field_descriptions[f] = Get(sample_data, f)
        /\ Len(FormatFieldDescriptions(available_fields, field_descriptions))
              = Cardinality(Listed \cap Keys(sample_data))

====
